---- MODULE Spec2Model ----
(***************************************************************************)
(* Model of the simulated network layer of mpc-bench (src/src/comm.rs):    *)
(* FullMesh::instantiate, Channels::new, Channels::send,                   *)
(* Channels::broadcast, Channels::receive and DelayedByteIterator, run by  *)
(* one worker thread per party over std::sync::mpsc channels, and of the   *)
(* harness Protocol::evaluate (src/src/lib.rs) that spawns and joins the   *)
(* workers.                                                                *)
(*                                                                         *)
(* Spec, SpecTimed, SpecStream, SpecSelf and SpecLink exercise the         *)
(* endpoint API with all workers running concurrently; SpecHarness and     *)
(* SpecStats run the workers the way evaluate spawns and joins them, and   *)
(* SpecExample runs the example party of the tests of lib.rs under it.     *)
(* SpecParty is the stand-alone Party of src/main.rs.                      *)
(*                                                                         *)
(* Rust Vecs are sequences: Vec index k is sequence index k + 1.  Party    *)
(* ids and link-pipe ids are the Rust indices 0 .. n - 1.  Instants and    *)
(* Durations are integers of one time unit; the clock is the variable      *)
(* now.  Instant - Instant saturates at zero (std, Rust >= 1.60), so a     *)
(* sleep for a target that already passed returns at once.                 *)
(*                                                                         *)
(* The variables sent, n_sent, returned and released, and the uid field of  *)
(* a message, are history the code does not keep: no action reads them to  *)
(* decide what the program does (n_sent only bounds the run).              *)
(***************************************************************************)
EXTENDS Integers, Sequences, FiniteSets, TLC

\* ---------------------------------------------------------------- bounds
MaxParties == 3
TimedParties == 3
MaxMessages == 3
MaxTimedMessages == 2
MaxTime == 3
MaxLatency == 1
MaxSecondsPerByte == 1
StreamParties == 2
MaxStreamMessages == 2
MaxRepetitions == 2
MaxDurations == 1
MaxSelfMessages == 2
MaxLinkMessages == 3
MaxPartyMessages == 2
\* it_works: evaluate(5, ..)
ExampleParties == 5
ExampleRepetitions == 1
ExampleMaxTime ==
    ExampleRepetitions * ExampleParties * ExampleParties
    * (MaxLatency + MaxSecondsPerByte)
\* The payloads a worker may send: distinct, of lengths 1 and 2.
Payloads == {<<7>>, <<8, 9>>}

VARIABLES
    n_parties,   \* the argument of FullMesh::instantiate
    network,     \* the FullMesh description: latency, seconds_per_byte
    channels,    \* Vec<Channels> returned by instantiate, one per worker
    pipes,       \* link pipe k: the messages in flight to receiver k
    pc,          \* each worker's position
    call,        \* each worker's receive call in progress
    now,         \* Instant::now()
    sent,        \* history: sent[i][k + 1], what worker i pushed into pipe k
    n_sent,      \* history: the number of envelopes pushed so far
    returned,    \* history: per worker, what its receive calls returned
    stream,      \* each worker's DelayedByteIterator of its last receive
    released,    \* history: per worker, the bytes its streams handed out
    harness,     \* the position and the locals of Protocol::evaluate
    stats,       \* AggregatedStats.stats: the timing records collected
    party        \* per party: its input, its PartyStats, the locals of run

vars == <<n_parties, network, channels, pipes, pc, call, now, sent, n_sent,
          returned, stream, released, harness, stats, party>>

\* What the calls of the endpoint API leave alone.
rest == <<stream, released, harness, stats>>

\* A call made by a worker whose Party::run is not modelled step by step:
\* its locals are left alone.
Free(A) == A /\ UNCHANGED party

\* ------------------------------------------------------------- helpers
Max(a, b) == IF a >= b THEN a ELSE b

Ids == 0 .. (n_parties - 1)

\* The endpoint owned by worker i.
Ch(i) == channels[i + 1]

NoCall == [from_id |-> -1, arrival_time |-> 0, contents |-> <<>>,
           uid |-> <<>>, buffered |-> FALSE]

\* A worker that has received nothing holds no stream.
NoStream == [wake_time |-> 0, bytes |-> <<>>, seconds_per_byte |-> 0,
             start_time |-> 0, uid |-> <<>>, yielded |-> 0,
             exhausted |-> FALSE]

\* The workers of Spec, SpecTimed and SpecStream are running threads, one
\* per endpoint, whoever spawned them; SpecHarness has Protocol::evaluate
\* spawn and join them.
NoHarness == [phase |-> "none", rep |-> 0, repetitions |-> 0, next |-> 0,
              waiting |-> FALSE, n_setup |-> 0, n_inputs |-> 0,
              debug_assertions |-> FALSE, protocol |-> "free",
              inputs |-> <<>>, outputs |-> <<>>]

\* A party before its worker is spawned: no input handed over, the fresh
\* PartyStats of PartyStats::new() (no measured duration), no output.
\* stage and index are the position of the worker in its run.
NoParty == [input |-> 0, stats |-> <<>>, output |-> 0, stage |-> "free",
            index |-> 0]

\* -------------------------------------------------- FullMesh::instantiate
\* Channels::new: one reorder buffer fewer than senders, one counter per
\* sender, next_vacancy = Instant::now().
NewChannels(id, senders, receiver, latency, seconds_per_byte, t) ==
    [id |-> id,
     senders |-> senders,
     receiver |-> receiver,
     buffer |-> [k \in 1 .. (Len(senders) - 1) |-> <<>>],
     sent_bytes |-> [k \in 1 .. Len(senders) |-> 0],
     latency |-> latency,
     seconds_per_byte |-> seconds_per_byte,
     next_vacancy |-> t]

\* The loop of instantiate: iteration k creates link pipe k, keeps its
\* receiver and pushes a clone of its sender onto every party's sender_vec.
RECURSIVE InstantiateLoop(_, _, _, _)
InstantiateLoop(k, n, receivers, senders) ==
    IF k >= n
    THEN [receivers |-> receivers, senders |-> senders]
    ELSE InstantiateLoop(k + 1, n, Append(receivers, k),
                         [j \in DOMAIN senders |-> Append(senders[j], k)])

\* receivers.into_iter().enumerate().zip(senders).map(Channels::new)
Instantiate(n, latency, seconds_per_byte, t) ==
    LET built == InstantiateLoop(0, n, <<>>, [j \in 1 .. n |-> <<>>])
        len == IF Len(built.receivers) <= Len(built.senders)
               THEN Len(built.receivers) ELSE Len(built.senders)
    IN [idx \in 1 .. len |->
            NewChannels(idx - 1, built.senders[idx], built.receivers[idx],
                        latency, seconds_per_byte, t)]

\* FullMesh::new and FullMesh::new_with_overhead: the description holds a
\* latency and a time per byte (zero and zero: no overhead).
FullMesh(latency, seconds_per_byte) ==
    [latency |-> latency, seconds_per_byte |-> seconds_per_byte]

\* The state after network_description.instantiate(n_parties).
Built(parties, latencies, rates, builds) ==
    /\ n_parties \in parties
    /\ \E l \in latencies, s \in rates : network = FullMesh(l, s)
    /\ now = 0
    /\ channels = Instantiate(n_parties, network.latency,
                              network.seconds_per_byte, now)
    /\ pipes = [k \in 1 .. n_parties |-> <<>>]
    /\ pc = [i \in Ids |-> "idle"]
    /\ call = [i \in Ids |-> NoCall]
    /\ sent = [i \in Ids |-> [k \in 1 .. n_parties |-> <<>>]]
    /\ n_sent = 0
    /\ returned = [i \in Ids |-> <<>>]
    /\ stream = [i \in Ids |-> NoStream]
    /\ released = [i \in Ids |-> <<>>]
    /\ \E d \in builds : harness = [NoHarness EXCEPT !.debug_assertions = d]
    /\ stats = <<>>
    /\ party = [i \in Ids |-> NoParty]

\* The endpoints of a release build.
Instantiated(parties, latencies, rates) ==
    Built(parties, latencies, rates, {FALSE})

\* FullMesh::new(): no communication overhead.
Init == Instantiated(0 .. MaxParties, {0}, {0})

\* FullMesh::new_with_overhead(latency, bytes_per_second), and FullMesh::new.
InitTimed == Instantiated({TimedParties}, 0 .. MaxLatency, 0 .. MaxSecondsPerByte)

\* ------------------------------------------------------------ link pipes
\* The worker holding the Receiver of link pipe k.
Owner(k) == CHOOSE i \in Ids : Ch(i).receiver = k

\* A transport that never reports a dropped Receiver.
DisconnectedNever(k) == FALSE

\* Sender::send fails exactly when the Receiver has been dropped, which
\* happens when the worker owning it has returned or panicked.
Disconnected(k) == pc[Owner(k)] \in {"done", "panicked"}

\* A routing slip: the handle after the one asked for.
SenderTargetShifted(ch, index) ==
    ch.senders[((index + 1) % Len(ch.senders)) + 1]

\* self.senders[index]: the link pipe the outbound handle at index feeds.
SenderTarget(ch, index) == ch.senders[index + 1]

\* A stamping slip: the envelope arrives the instant it is sent.
EnvelopeNoLatency(ch, message, t, uid) ==
    [arrival_time |-> t,
     from_id |-> ch.id,
     contents |-> message,
     uid |-> uid]

\* Message { arrival_time: Instant::now() + self.latency, from_id: self.id,
\* contents: message.to_vec() }
Envelope(ch, message, t, uid) ==
    [arrival_time |-> t + ch.latency,
     from_id |-> ch.id,
     contents |-> message,
     uid |-> uid]

\* History: the identity of the next envelope worker i pushes into pipe k,
\* and the log with that envelope added.
Uid(log, i, k) == <<i, k, Len(log[i][k + 1]) + 1>>

Logged(log, i, k, index, message, t, op) ==
    [log EXCEPT ![i][k + 1] =
        Append(@, [contents |-> message, at |-> t, index |-> index,
                   uid |-> Uid(log, i, k), op |-> op])]

\* An accounting slip: counts messages instead of bytes.
AddSentBytesPerMessage(sent_bytes, byte_count, to_id) ==
    [sent_bytes EXCEPT ![to_id + 1] = @ + 1]

\* add_sent_bytes
AddSentBytes(sent_bytes, byte_count, to_id) ==
    [sent_bytes EXCEPT ![to_id + 1] = @ + byte_count]

\* --------------------------------------------------------- Channels::send
Send(i, message, to_id) ==
    LET ch == Ch(i)
        k == SenderTarget(ch, to_id)
        env == Envelope(ch, message, now, Uid(sent, i, k))
    IN /\ pc[i] = "idle"
       /\ to_id \in Ids
       /\ IF Disconnected(k)
          THEN \* .unwrap() of the SendError
               /\ pc' = [pc EXCEPT ![i] = "panicked"]
               /\ UNCHANGED <<channels, pipes, sent, n_sent>>
          ELSE /\ pipes' = [pipes EXCEPT ![k + 1] = Append(@, env)]
               /\ channels' = [channels EXCEPT ![i + 1].sent_bytes =
                                  AddSentBytes(@, Len(message), to_id)]
               /\ sent' = Logged(sent, i, k, to_id, message, now, "send")
               /\ n_sent' = n_sent + 1
               /\ UNCHANGED pc
       /\ UNCHANGED <<rest, n_parties, network, call, now, returned>>

\* ---------------------------------------------------- Channels::broadcast
\* for sender in &self.senders { sender.send(..).unwrap() }: one push per
\* outbound handle, in index order, stopping with a panic at the first
\* handle whose receiver is gone.
RECURSIVE BroadcastLoop(_, _, _, _, _)
BroadcastLoop(ch, message, index, p, log) ==
    IF index >= Len(ch.senders)
    THEN [pipes |-> p, sent |-> log, ok |-> TRUE, count |-> index]
    ELSE LET k == SenderTarget(ch, index)
             env == Envelope(ch, message, now, Uid(log, ch.id, k))
         IN IF Disconnected(k)
            THEN [pipes |-> p, sent |-> log, ok |-> FALSE, count |-> index]
            ELSE BroadcastLoop(ch, message, index + 1,
                               [p EXCEPT ![k + 1] = Append(@, env)],
                               Logged(log, ch.id, k, index, message, now,
                                      "broadcast"))

\* for i in 0..self.senders.len() { self.add_sent_bytes(byte_count, &i) }
RECURSIVE BroadcastCount(_, _, _)
BroadcastCount(sent_bytes, byte_count, index) ==
    IF index >= Len(sent_bytes)
    THEN sent_bytes
    ELSE BroadcastCount(AddSentBytes(sent_bytes, byte_count, index),
                        byte_count, index + 1)

Broadcast(i, message) ==
    LET ch == Ch(i)
        out == BroadcastLoop(ch, message, 0, pipes, sent)
    IN /\ pc[i] = "idle"
       /\ pipes' = out.pipes
       /\ sent' = out.sent
       /\ n_sent' = n_sent + out.count
       /\ IF out.ok
          THEN /\ channels' = [channels EXCEPT ![i + 1].sent_bytes =
                                  BroadcastCount(@, Len(message), 0)]
               /\ UNCHANGED pc
          ELSE /\ pc' = [pc EXCEPT ![i] = "panicked"]
               /\ UNCHANGED channels
       /\ UNCHANGED <<rest, n_parties, network, call, now, returned>>

\* ------------------------------------------------------ Channels::receive
\* A mapping slip: the peer id used as the slot, the own id not skipped.
ReducedIdNoSkip(id, from_id) == from_id

\* The slot of the reorder buffer a peer's messages are kept in.
ReducedId(id, from_id) == IF from_id < id THEN from_id ELSE from_id - 1

\* self.buffer[index] exists.  An index below zero stands for the usize
\* subtraction 0 - 1, which panics (debug) or wraps to usize::MAX (release),
\* out of bounds of every buffer.
InBounds(buffer, index) == index >= 0 /\ index < Len(buffer)

\* The entry kept in a reorder buffer: (arrival_time, contents).
Entry(m) == [arrival_time |-> m.arrival_time, contents |-> m.contents,
             uid |-> m.uid]

\* The local (arrival_time, bytes) of receive; buffered is history: whether
\* the message came out of a reorder buffer.
Matched(from_id, e, buffered) ==
    [from_id |-> from_id, arrival_time |-> e.arrival_time,
     contents |-> e.contents, uid |-> e.uid, buffered |-> buffered]

\* A build whose receive takes any from_id.
SelfReceiveUnchecked(debug_assertions, id, from_id) == FALSE

\* debug_assert_ne!(*from_id, self.id, ...): compiled in with debug
\* assertions only.
SelfReceiveRejected(debug_assertions, id, from_id) ==
    debug_assertions /\ from_id = id

\* The call of receive(from_id), up to its first blocking point: the
\* assertion, then a buffered message of from_id is removed and matched,
\* otherwise the worker starts pulling from its receiver.  call keeps the
\* argument of a call aborted by the assertion.
ReceiveCall(i, from_id) ==
    LET ch == Ch(i)
        reduced_id == ReducedId(ch.id, from_id)
    IN /\ pc[i] = "idle"
       /\ from_id \in Ids
       /\ IF SelfReceiveRejected(harness.debug_assertions, ch.id, from_id)
          THEN /\ pc' = [pc EXCEPT ![i] = "panicked"]
               /\ call' = [call EXCEPT ![i] = [NoCall EXCEPT !.from_id = from_id]]
               /\ UNCHANGED channels
          ELSE IF ~InBounds(ch.buffer, reduced_id)
          THEN /\ pc' = [pc EXCEPT ![i] = "panicked"]
               /\ UNCHANGED <<channels, call>>
          ELSE IF Len(ch.buffer[reduced_id + 1]) = 0
          THEN /\ pc' = [pc EXCEPT ![i] = "pulling"]
               /\ call' = [call EXCEPT ![i] = [NoCall EXCEPT !.from_id = from_id]]
               /\ UNCHANGED channels
          ELSE /\ pc' = [pc EXCEPT ![i] = "sleeping"]
               /\ call' = [call EXCEPT ![i] =
                              Matched(from_id, Head(ch.buffer[reduced_id + 1]),
                                      TRUE)]
               /\ channels' = [channels EXCEPT
                                  ![i + 1].buffer[reduced_id + 1] = Tail(@)]
       /\ UNCHANGED <<rest, n_parties, network, pipes, now, sent, n_sent, returned>>

\* The endpoints that still hold a Sender of link pipe k: an endpoint keeps
\* its handles until its worker has returned or panicked.
SendersHeld(k) ==
    {j \in Ids : /\ pc[j] \notin {"done", "panicked"}
                 /\ \E x \in 1 .. Len(Ch(j).senders) : Ch(j).senders[x] = k}

\* A comparison slip: any message resolves the call.
FromAnyone(message, from_id) == TRUE

\* message.from_id == *from_id
FromRequested(message, from_id) == message.from_id = from_id

\* One turn of the loop: self.receiver.recv() returns the oldest message of
\* the worker's link pipe; on an empty pipe it blocks while a Sender of the
\* pipe is held by some endpoint and returns Err, which the unwrap turns
\* into a panic, when none is.
Pull(i) ==
    LET ch == Ch(i)
        k == ch.receiver
        message == Head(pipes[k + 1])
        message_reduced_id == ReducedId(ch.id, message.from_id)
    IN /\ pc[i] = "pulling"
       /\ IF Len(pipes[k + 1]) = 0
          THEN /\ SendersHeld(k) = {}
               /\ pc' = [pc EXCEPT ![i] = "panicked"]
               /\ call' = [call EXCEPT ![i] = NoCall]
               /\ UNCHANGED <<channels, pipes>>
          ELSE /\ pipes' = [pipes EXCEPT ![k + 1] = Tail(@)]
               /\ IF FromRequested(message, call[i].from_id)
                  THEN /\ pc' = [pc EXCEPT ![i] = "sleeping"]
                       /\ call' = [call EXCEPT ![i] =
                                      Matched(call[i].from_id, Entry(message),
                                              FALSE)]
                       /\ UNCHANGED channels
                  ELSE IF ~InBounds(ch.buffer, message_reduced_id)
                  THEN /\ pc' = [pc EXCEPT ![i] = "panicked"]
                       /\ call' = [call EXCEPT ![i] = NoCall]
                       /\ UNCHANGED channels
                  ELSE /\ channels' = [channels EXCEPT
                                          ![i + 1].buffer[message_reduced_id + 1] =
                                              Append(@, Entry(message))]
                       /\ UNCHANGED <<pc, call>>
       /\ UNCHANGED <<rest, n_parties, network, now, sent, n_sent, returned>>

\* The unserialized variant: the transfer starts at the arrival, whether or
\* not the link is still busy.
StartTimeOnArrival(next_vacancy, arrival_time) == arrival_time

\* A slip: the earlier of the two instants.
StartTimeEarlier(next_vacancy, arrival_time) ==
    IF next_vacancy <= arrival_time THEN next_vacancy ELSE arrival_time

\* The start of the transfer of a matched message.
StartTime(next_vacancy, arrival_time) == Max(next_vacancy, arrival_time)

\* A bookkeeping slip: the link is taken to be free as soon as the transfer
\* starts.
NextVacancyAtStart(start_time, seconds_per_byte, len) == start_time

\* A rate slip: one time unit per byte whatever the description says.
NextVacancyUnitRate(start_time, seconds_per_byte, len) == start_time + len

\* The instant the link is free again.
NextVacancy(start_time, seconds_per_byte, len) ==
    start_time + seconds_per_byte * len

\* A waiting slip: only the sleep until the arrival is taken.
AwakeOnArrival(ch, arrival_time) == now >= arrival_time

\* The two sleeps have ended.
Awake(ch, arrival_time) == now >= ch.next_vacancy /\ now >= arrival_time

\* A pacing slip: the first byte is due at the start of the transfer.
NewDelayedByteIteratorUnpaced(bytes, start_time, seconds_per_byte, uid) ==
    [wake_time |-> start_time, bytes |-> bytes,
     seconds_per_byte |-> seconds_per_byte,
     start_time |-> start_time, uid |-> uid, yielded |-> 0,
     exhausted |-> FALSE]

\* DelayedByteIterator::new: the first byte is due one seconds_per_byte
\* after the start of the transfer.  start_time, uid, yielded and exhausted
\* are history: the start of the transfer, the message streamed, the number
\* of bytes handed out, and whether next() has returned None.
NewDelayedByteIterator(bytes, start_time, seconds_per_byte, uid) ==
    [wake_time |-> start_time + seconds_per_byte, bytes |-> bytes,
     seconds_per_byte |-> seconds_per_byte,
     start_time |-> start_time, uid |-> uid, yielded |-> 0,
     exhausted |-> FALSE]

\* The rest of receive once a message is matched: sleep until next_vacancy,
\* sleep until the arrival time, then plan the transfer and return the
\* DelayedByteIterator.
ReceiveReturn(i) ==
    LET ch == Ch(i)
        m == call[i]
        start_time == StartTime(ch.next_vacancy, m.arrival_time)
    IN /\ pc[i] = "sleeping"
       /\ Awake(ch, m.arrival_time)
       /\ channels' = [channels EXCEPT ![i + 1].next_vacancy =
                          NextVacancy(start_time, ch.seconds_per_byte,
                                      Len(m.contents))]
       /\ returned' = [returned EXCEPT ![i] =
                          Append(@, [asked |-> m.from_id, uid |-> m.uid,
                                     contents |-> m.contents,
                                     buffered |-> m.buffered])]
       /\ pc' = [pc EXCEPT ![i] = "idle"]
       /\ call' = [call EXCEPT ![i] = NoCall]
       /\ stream' = [stream EXCEPT ![i] =
                        NewDelayedByteIterator(m.contents, start_time,
                                               ch.seconds_per_byte, m.uid)]
       /\ UNCHANGED <<released, harness, stats, n_parties, network, pipes,
                      now, sent, n_sent>>

\* ----------------------------------------------- DelayedByteIterator::next
\* A stream that paces its first byte only.
NextWakeSame(wake_time, seconds_per_byte) == wake_time

\* self.wake_time += self.seconds_per_byte
NextWake(wake_time, seconds_per_byte) == wake_time + seconds_per_byte

\* bytes.next().map(|byte| { sleep(wake_time - now); wake_time +=
\* seconds_per_byte; byte }): a remaining byte is handed out once the clock
\* has reached wake_time (at once if it already passed), and the next wake
\* time is one seconds_per_byte after this one; with no byte left the call
\* returns None without sleeping.
StreamNext(i) ==
    LET it == stream[i]
    IN /\ pc[i] = "idle"
       /\ it.uid # <<>>
       /\ IF it.bytes = <<>>
          THEN /\ stream' = [stream EXCEPT ![i].exhausted = TRUE]
               /\ UNCHANGED released
          ELSE /\ now >= it.wake_time
               /\ stream' = [stream EXCEPT
                                ![i].bytes = Tail(@),
                                ![i].wake_time =
                                   NextWake(@, it.seconds_per_byte),
                                ![i].yielded = @ + 1]
               /\ released' = [released EXCEPT ![i] =
                                  Append(@, [uid |-> it.uid,
                                             byte |-> Head(it.bytes),
                                             index |-> it.yielded + 1,
                                             at |-> now])]
       /\ UNCHANGED <<harness, stats, n_parties, network, channels, pipes,
                      pc, call, now, sent, n_sent, returned>>

\* ------------------------------------------------------------ environment
\* The worker's closure returns: its Channels, and with it the Receiver of
\* its link pipe, is dropped.
WorkerReturn(i) ==
    /\ pc[i] = "idle"
    /\ pc' = [pc EXCEPT ![i] = "done"]
    /\ UNCHANGED <<rest, n_parties, network, channels, pipes, call, now, sent,
                   n_sent, returned>>

\* The monotonic clock advances, in the model up to a limit.
TickTo(limit) ==
    /\ now < limit
    /\ now' = now + 1
    /\ UNCHANGED <<rest, n_parties, network, channels, pipes, pc, call, sent,
                   n_sent, returned>>

Tick == TickTo(MaxTime)

\* The runs are bounded by the number of envelopes pushed.
MaySend(limit) == n_sent + 1 <= limit

MayBroadcast(i, limit) == n_sent + Len(Ch(i).senders) <= limit

\* The workers' calls.  Under FullMesh::new() no sleep waits and no call
\* depends on the value of the clock, which Spec leaves at the instant of
\* instantiate; SpecTimed lets it advance.
Next ==
    \/ \E i \in Ids, message \in Payloads :
          \E to_id \in Ids \ {i} :
             MaySend(MaxMessages) /\ Free(Send(i, message, to_id))
    \/ \E i \in Ids, message \in Payloads :
          Free(Broadcast(i, message)) /\ MayBroadcast(i, MaxMessages)
    \/ \E i \in Ids : \E from_id \in Ids \ {i} :
          Free(ReceiveCall(i, from_id))
    \/ \E i \in Ids : Free(Pull(i))
    \/ \E i \in Ids : Free(ReceiveReturn(i))
    \/ \E i \in Ids : Free(WorkerReturn(i))

Spec == Init /\ [][Next]_vars

\* The timed runs have one receiving worker (any of them): next_vacancy and
\* the reorder buffers are private to an endpoint, so the receive calls of
\* different workers do not affect each other's timing.
\* The endpoint API called in any way, the receive of one's own id
\* included, in a build with or without debug assertions.
InitSelf == Built(2 .. MaxParties, {0}, {0}, BOOLEAN)

NextSelf ==
    \/ \E i \in Ids, message \in Payloads :
          \E to_id \in Ids \ {i} :
             MaySend(MaxSelfMessages) /\ Free(Send(i, message, to_id))
    \/ \E i \in Ids, message \in Payloads :
          Free(Broadcast(i, message)) /\ MayBroadcast(i, MaxSelfMessages)
    \/ \E i \in Ids, from_id \in Ids : Free(ReceiveCall(i, from_id))
    \/ \E i \in Ids : Free(Pull(i))
    \/ \E i \in Ids : Free(ReceiveReturn(i))
    \/ \E i \in Ids : Free(WorkerReturn(i))

SpecSelf == InitSelf /\ [][NextSelf]_vars

OnlyReceiver(i) ==
    \A j \in Ids \ {i} : pc[j] = "idle" /\ returned[j] = <<>>

NextTimed ==
    \/ \E i \in Ids, message \in Payloads :
          \E to_id \in Ids \ {i} :
             MaySend(MaxTimedMessages) /\ Free(Send(i, message, to_id))
    \/ \E i \in Ids : \E from_id \in Ids \ {i} :
          OnlyReceiver(i) /\ Free(ReceiveCall(i, from_id))
    \/ \E i \in Ids : Free(Pull(i))
    \/ \E i \in Ids : Free(ReceiveReturn(i))
    \/ Free(Tick)

SpecTimed == InitTimed /\ [][NextTimed]_vars

\* Two workers that send, receive, consume the streams they received and
\* return, over a link with or without overhead, while the clock advances.
InitStream ==
    Instantiated({StreamParties}, 0 .. MaxLatency, 0 .. MaxSecondsPerByte)

NextStream ==
    \/ \E i \in Ids, message \in Payloads :
          \E to_id \in Ids \ {i} :
             MaySend(MaxStreamMessages) /\ Free(Send(i, message, to_id))
    \/ \E i \in Ids : \E from_id \in Ids \ {i} :
          Free(ReceiveCall(i, from_id))
    \/ \E i \in Ids : Free(Pull(i))
    \/ \E i \in Ids : Free(ReceiveReturn(i))
    \/ \E i \in Ids : Free(StreamNext(i))
    \/ \E i \in Ids : Free(WorkerReturn(i))
    \/ Free(Tick)

SpecStream == InitStream /\ [][NextStream]_vars

\* ------------------------------------------------------ Protocol::evaluate
\* The lengths a protocol's setup_parties and generate_inputs may return
\* for a party count n: the right one, one fewer, one more.
Counts(n) == {c \in {n - 1, n, n + 1} : c >= 0}

\* The number of elements of the zip of parties, inputs, channels and
\* party_stats: the shortest of them.
Workers ==
    LET a == IF harness.n_setup <= harness.n_inputs
             THEN harness.n_setup ELSE harness.n_inputs
    IN IF a <= n_parties THEN a ELSE n_parties

\* The endpoint API over a link with overhead, broadcasts included; the
\* streams returned are not read.
NextLink ==
    \/ \E i \in Ids, message \in Payloads :
          \E to_id \in Ids \ {i} :
             MaySend(MaxLinkMessages) /\ Free(Send(i, message, to_id))
    \/ \E i \in Ids, message \in Payloads :
          Free(Broadcast(i, message)) /\ MayBroadcast(i, MaxLinkMessages)
    \/ \E i \in Ids : \E from_id \in Ids \ {i} :
          Free(ReceiveCall(i, from_id))
    \/ \E i \in Ids : Free(Pull(i))
    \/ \E i \in Ids : Free(ReceiveReturn(i))
    \/ Free(Tick)

SpecLink == InitStream /\ [][NextLink]_vars

\* The values generate_inputs may give a party.
InputValues == {10, 20}

\* The inputs generate_inputs may return: any c of them.
InputVectors(c, values) == [1 .. c -> values]

\* evaluate has been called for a protocol: nothing is set up, no endpoint
\* exists.  The build has debug assertions or not; no inputs are generated
\* yet, which n_inputs = n_parties stands for.
EvaluateCalled(parties, latencies, rates, repetitions, protocol) ==
    /\ n_parties \in parties
    /\ \E l \in latencies, s \in rates : network = FullMesh(l, s)
    /\ now = 0
    /\ channels = <<>>
    /\ pipes = <<>>
    /\ pc = [i \in Ids |-> "unspawned"]
    /\ call = [i \in Ids |-> NoCall]
    /\ sent = [i \in Ids |-> [k \in 1 .. n_parties |-> <<>>]]
    /\ n_sent = 0
    /\ returned = [i \in Ids |-> <<>>]
    /\ stream = [i \in Ids |-> NoStream]
    /\ released = [i \in Ids |-> <<>>]
    /\ \E r \in repetitions, c \in Counts(n_parties), d \in BOOLEAN :
          harness = [phase |-> "entry", rep |-> 0, repetitions |-> r,
                     next |-> 0, waiting |-> FALSE, n_setup |-> c,
                     n_inputs |-> n_parties, debug_assertions |-> d,
                     protocol |-> protocol, inputs |-> <<>>,
                     outputs |-> <<>>]
    /\ stats = <<>>
    /\ party = [i \in Ids |-> NoParty]

\* A protocol whose parties call the endpoint API freely, over FullMesh::new().
InitHarness ==
    EvaluateCalled(0 .. MaxParties, {0}, {0}, 0 .. MaxRepetitions, "free")

\* What the harness leaves alone outside the start of a repetition.
endpoints == <<n_parties, network, channels, pipes, call, now, sent, n_sent,
               returned, stream, released>>

\* let parties = self.setup_parties(n_parties);
\* debug_assert_eq!(parties.len(), n_parties);
SetupParties ==
    /\ harness.phase = "entry"
    /\ harness' = [harness EXCEPT !.phase =
                      IF harness.debug_assertions /\ harness.n_setup # n_parties
                      THEN "failed" ELSE "idle"]
    /\ UNCHANGED <<endpoints, pc, stats, party>>

\* The top of a repetition: generate_inputs and its debug assertion, then
\* instantiate (fresh endpoints and link pipes) and a fresh PartyStats per
\* party.  The phase "aggregated" of one repetition is the loop top of the
\* next.
StartRepetition(values) ==
    /\ harness.phase \in {"idle", "aggregated"}
    /\ harness.rep < harness.repetitions
    /\ \E c \in Counts(n_parties) : \E inputs \in InputVectors(c, values) :
          IF harness.debug_assertions /\ c # n_parties
          THEN /\ harness' = [harness EXCEPT !.phase = "failed", !.n_inputs = c,
                                             !.inputs = inputs]
               /\ UNCHANGED <<endpoints, pc, stats, party>>
          ELSE /\ harness' = [harness EXCEPT !.phase = "instantiated",
                                             !.n_inputs = c, !.next = 0,
                                             !.waiting = FALSE,
                                             !.inputs = inputs,
                                             !.outputs = <<>>]
               /\ party' = [i \in Ids |-> NoParty]
               /\ channels' = Instantiate(n_parties, network.latency,
                                          network.seconds_per_byte, now)
               /\ pipes' = [k \in 1 .. n_parties |-> <<>>]
               /\ pc' = [i \in Ids |-> "unspawned"]
               /\ call' = [i \in Ids |-> NoCall]
               /\ sent' = [i \in Ids |-> [k \in 1 .. n_parties |-> <<>>]]
               /\ n_sent' = 0
               /\ returned' = [i \in Ids |-> <<>>]
               /\ stream' = [i \in Ids |-> NoStream]
               /\ released' = [i \in Ids |-> <<>>]
               /\ UNCHANGED <<n_parties, network, now, stats>>

\* handles is a lazy iterator (a Map over the zip, never collected): the
\* collect() of the outputs pulls one handle at a time, and pulling handle
\* k is what spawns worker k.  It is pulled once handle k - 1 is joined.
Spawn(k) ==
    /\ harness.phase \in {"instantiated", "running"}
    /\ ~harness.waiting
    /\ k = harness.next
    /\ k < Workers
    /\ pc' = [pc EXCEPT ![k] = "idle"]
    /\ party' = [party EXCEPT ![k].input = harness.inputs[k + 1],
                              ![k].stage = IF harness.protocol = "example"
                                           THEN "send" ELSE "free",
                              ![k].index = k + 1]
    /\ harness' = [harness EXCEPT !.phase = "running", !.waiting = TRUE]
    /\ UNCHANGED <<endpoints, stats>>

\* A join that does not wait for its thread.
FinishedOrNot(k) == TRUE

\* JoinHandle::join returns once the thread has ended.
Finished(k) == pc[k] \in {"done", "panicked"}

\* A join whose error is ignored.
JoinResultIgnored(state) == "Ok"

\* The Result of join: Err when the thread panicked.
JoinResult(state) == IF state = "panicked" THEN "Err" ELSE "Ok"

\* handle.join().unwrap() on the handle just pulled: the harness blocks
\* until worker k has ended, and panics itself when worker k panicked.
Join(k) ==
    /\ harness.phase = "running"
    /\ harness.waiting
    /\ k = harness.next
    /\ Finished(k)
    /\ harness' = IF JoinResult(pc[k]) = "Err"
                  THEN [harness EXCEPT !.phase = "failed"]
                  ELSE [harness EXCEPT !.next = k + 1, !.waiting = FALSE,
                                       !.outputs = Append(@, party[k].output)]
    /\ UNCHANGED <<endpoints, pc, stats, party>>

\* The handles are used up: collect() returns the outputs, which
\* validate_outputs inspects (a failed validation only prints).
Collected ==
    /\ harness.phase \in {"instantiated", "running"}
    /\ ~harness.waiting
    /\ harness.next = Workers
    /\ harness' = [harness EXCEPT !.phase = "joined"]
    /\ UNCHANGED <<endpoints, pc, stats, party>>

\* A forwarding slip: only the recorders of the workers that ran.
IncorporateSpawned(collected, party_stats, r) ==
    collected \o [k \in 1 .. Workers |->
                     [rep |-> r, party |-> k - 1,
                      measured_durations |-> party_stats[k - 1].stats]]

\* for s in party_stats { stats.incorporate_party_stats(s) }: one push per
\* element of party_stats, which has n_parties elements, in index order.
\* rep and party are history: the repetition and the party of the record.
Incorporate(collected, party_stats, r) ==
    collected \o [k \in 1 .. n_parties |->
                     [rep |-> r, party |-> k - 1,
                      measured_durations |-> party_stats[k - 1].stats]]

\* The timing records are handed to the collector; the repetition is over
\* and its locals (inputs, outputs) go out of scope.
Aggregate ==
    /\ harness.phase = "joined"
    /\ stats' = Incorporate(stats, party, harness.rep)
    /\ harness' = [harness EXCEPT !.phase = "aggregated", !.rep = @ + 1,
                                  !.inputs = <<>>, !.outputs = <<>>]
    /\ UNCHANGED <<endpoints, pc, party>>

\* The loop has run its repetitions: evaluate returns stats.
Return ==
    /\ harness.phase \in {"idle", "aggregated"}
    /\ harness.rep = harness.repetitions
    /\ harness' = [harness EXCEPT !.phase = "finished"]
    /\ UNCHANGED <<endpoints, pc, stats, party>>

\* party.run panics in the protocol's own code.
WorkerPanic(i) ==
    /\ pc[i] = "idle"
    /\ pc' = [pc EXCEPT ![i] = "panicked"]
    /\ UNCHANGED <<endpoints, harness, stats, party>>

\* stats.stop_timer(timer) in party.run: a measured duration is written to
\* the party's PartyStats.
WriteDuration(i) ==
    /\ pc[i] = "idle"
    /\ Len(party[i].stats) < MaxDurations
    /\ party' = [party EXCEPT ![i].stats = Append(@, "timer")]
    /\ UNCHANGED <<endpoints, pc, harness, stats>>

\* evaluate and the workers it spawns, which call the endpoint API freely.
NextHarness ==
    \/ SetupParties
    \/ StartRepetition({10})
    \/ \E k \in Ids : Spawn(k)
    \/ \E k \in Ids : Join(k)
    \/ Collected
    \/ Aggregate
    \/ Return
    \/ \E i \in Ids, message \in Payloads :
          \E to_id \in Ids \ {i} :
             MaySend(MaxMessages) /\ Free(Send(i, message, to_id))
    \/ \E i \in Ids, message \in Payloads :
          Free(Broadcast(i, message)) /\ MayBroadcast(i, MaxMessages)
    \/ \E i \in Ids : \E from_id \in Ids \ {i} :
          Free(ReceiveCall(i, from_id))
    \/ \E i \in Ids : Free(Pull(i))
    \/ \E i \in Ids : Free(ReceiveReturn(i))
    \/ \E i \in Ids : Free(WorkerReturn(i))
    \/ \E i \in Ids : WorkerPanic(i)

SpecHarness == InitHarness /\ [][NextHarness]_vars

\* ------------------------------------------------------ ExampleParty::run
\* The output of the example party.
ExampleOutputInputOnly(id, input) == input

ExampleOutput(id, input) == id + input

\* for i in (id + 1)..n_parties { channels.send(&vec![id as u8], &i) }: one
\* turn of the loop; index is the loop variable.
ExampleSend(i) ==
    /\ party[i].stage = "send"
    /\ party[i].index < n_parties
    /\ Send(i, <<i>>, party[i].index)
    /\ party' = [party EXCEPT ![i].index = @ + 1]

\* stats.stop_timer(sending_timer) after the last send: the duration of the
\* timer "sending" is written to the party's recorder.
ExampleStopTimer(i) ==
    /\ pc[i] = "idle"
    /\ party[i].stage = "send"
    /\ party[i].index >= n_parties
    /\ party' = [party EXCEPT ![i].stats = Append(@, "sending"),
                              ![i].stage = "receive", ![i].index = 0]
    /\ UNCHANGED <<endpoints, pc, harness, stats>>

\* for j in 0..id { channels.receive(&j) ... }: the call of one turn.
ExampleReceive(i) ==
    /\ party[i].stage = "receive"
    /\ party[i].index < i
    /\ ReceiveCall(i, party[i].index)
    /\ party' = [party EXCEPT ![i].stage = "collect"]

\* .collect::<Vec<_>>()[0]: the returned stream is drained byte by byte;
\* the turn is over when next() has returned None.  (The payloads of the
\* example have one byte, so the index 0 is in bounds.)
ExampleCollect(i) ==
    /\ party[i].stage = "collect"
    /\ StreamNext(i)
    /\ party' = IF stream'[i].exhausted
                THEN [party EXCEPT ![i].stage = "receive", ![i].index = @ + 1]
                ELSE party

\* id + input: run returns after the last receive.
ExampleReturn(i) ==
    /\ party[i].stage = "receive"
    /\ party[i].index >= i
    /\ WorkerReturn(i)
    /\ party' = [party EXCEPT ![i].output = ExampleOutput(i, party[i].input),
                              ![i].stage = "returned"]

\* A worker is in thread::sleep: the clock has not reached the instant it
\* waits for.
Asleep(i) ==
    \/ pc[i] = "sleeping" /\ ~Awake(Ch(i), call[i].arrival_time)
    \/ /\ pc[i] = "idle"
       /\ party[i].stage = "collect"
       /\ stream[i].bytes # <<>>
       /\ now < stream[i].wake_time

\* The clock is read by the sleeps only: it is advanced while a worker
\* sleeps.
ExampleTick ==
    /\ \E i \in Ids : Asleep(i)
    /\ Free(TickTo(ExampleMaxTime))

\* it_works: evaluate for 5 example parties, with or without overhead.
InitExample ==
    EvaluateCalled({ExampleParties}, 0 .. MaxLatency, 0 .. MaxSecondsPerByte,
                   0 .. ExampleRepetitions, "example")

NextExample ==
    \/ SetupParties
    \/ StartRepetition(InputValues)
    \/ \E k \in Ids : Spawn(k)
    \/ \E k \in Ids : Join(k)
    \/ Collected
    \/ Aggregate
    \/ Return
    \/ \E i \in Ids : ExampleSend(i)
    \/ \E i \in Ids : ExampleStopTimer(i)
    \/ \E i \in Ids : ExampleReceive(i)
    \/ \E i \in Ids : Free(Pull(i))
    \/ \E i \in Ids : Free(ReceiveReturn(i))
    \/ \E i \in Ids : ExampleCollect(i)
    \/ \E i \in Ids : ExampleReturn(i)
    \/ ExampleTick

\* The harness thread and the spawned threads are scheduled by the operating
\* system: a thread that can take a step eventually takes one.
SpecExample == InitExample /\ [][NextExample]_vars /\ WF_vars(NextExample)

\* ------------------------------------------------- src/main.rs: Party
\* The stand-alone program of main.rs has its own endpoint, Party, without
\* timing.  Party::new: buffer is a HashMap from a sender id to one
\* payload; slot from_id + 1 of buffer is <<>> when the map has no entry
\* for from_id and holds the entry otherwise.
PartyNew(id, receiver, senders) ==
    [id |-> id,
     senders |-> senders,
     sent_bytes |-> [k \in 1 .. Len(senders) |-> 0],
     receiver |-> receiver,
     buffer |-> [k \in 1 .. Len(senders) |-> <<>>]]

\* Message { from_id, contents }; uid is history.
PartyMessage(from_id, contents, uid) ==
    [from_id |-> from_id, contents |-> contents, uid |-> uid]

\* evaluate of main.rs: pipe k's sender is cloned into every party's
\* senders, and the handles are collected, so that all workers run.
InitParty ==
    /\ n_parties \in 2 .. MaxParties
    /\ network = FullMesh(0, 0)
    /\ now = 0
    /\ channels = [k \in 1 .. n_parties |->
                      PartyNew(k - 1, k - 1, [x \in 1 .. n_parties |-> x - 1])]
    /\ pipes = [k \in 1 .. n_parties |-> <<>>]
    /\ pc = [i \in Ids |-> "idle"]
    /\ call = [i \in Ids |-> NoCall]
    /\ sent = [i \in Ids |-> [k \in 1 .. n_parties |-> <<>>]]
    /\ n_sent = 0
    /\ returned = [i \in Ids |-> <<>>]
    /\ stream = [i \in Ids |-> NoStream]
    /\ released = [i \in Ids |-> <<>>]
    /\ harness = NoHarness
    /\ stats = <<>>
    /\ party = [i \in Ids |-> NoParty]

\* Party::send
PartySend(i, message, to_party) ==
    LET ch == Ch(i)
        k == ch.senders[to_party + 1]
    IN /\ pc[i] = "idle"
       /\ to_party \in Ids
       /\ IF Disconnected(k)
          THEN /\ pc' = [pc EXCEPT ![i] = "panicked"]
               /\ UNCHANGED <<channels, pipes, sent, n_sent>>
          ELSE /\ pipes' = [pipes EXCEPT ![k + 1] =
                               Append(@, PartyMessage(ch.id, message,
                                                      Uid(sent, i, k)))]
               /\ channels' = [channels EXCEPT
                                  ![i + 1].sent_bytes[to_party + 1] =
                                     @ + Len(message)]
               /\ sent' = Logged(sent, i, k, to_party, message, now, "send")
               /\ n_sent' = n_sent + 1
               /\ UNCHANGED pc
       /\ UNCHANGED <<rest, party, n_parties, network, call, now, returned>>

\* The result of a receive: what the caller gets, as history.
PartyReturned(log, from_id, m, buffered) ==
    Append(log, [asked |-> from_id, uid |-> m.uid, contents |-> m.contents,
                 buffered |-> buffered])

\* Party::receive up to its first blocking point: buffer.remove(from_id)
\* returns the buffered payload at once; without one the worker starts
\* pulling.
PartyReceiveCall(i, from_id) ==
    LET ch == Ch(i)
    IN /\ pc[i] = "idle"
       /\ from_id \in Ids
       /\ IF ch.buffer[from_id + 1] # <<>>
          THEN /\ returned' = [returned EXCEPT ![i] =
                                  PartyReturned(@, from_id,
                                                Head(ch.buffer[from_id + 1]),
                                                TRUE)]
               /\ channels' = [channels EXCEPT
                                  ![i + 1].buffer[from_id + 1] = <<>>]
               /\ UNCHANGED <<pc, call>>
          ELSE /\ pc' = [pc EXCEPT ![i] = "pulling"]
               /\ call' = [call EXCEPT ![i] = [NoCall EXCEPT !.from_id = from_id]]
               /\ UNCHANGED <<channels, returned>>
       /\ UNCHANGED <<rest, party, n_parties, network, pipes, now, sent, n_sent>>

\* One turn of the loop of Party::receive: recv() blocks while the pipe is
\* empty (every party holds a Sender of the pipe, the owner included); the
\* message asked for ends the call, any other one is put into the map
\* under its sender, where insert replaces the payload already there.
PartyPull(i) ==
    LET ch == Ch(i)
        k == ch.receiver
    IN /\ pc[i] = "pulling"
       /\ Len(pipes[k + 1]) > 0
       /\ LET message == Head(pipes[k + 1])
          IN /\ pipes' = [pipes EXCEPT ![k + 1] = Tail(@)]
             /\ IF message.from_id = call[i].from_id
                THEN /\ returned' = [returned EXCEPT ![i] =
                                        PartyReturned(@, call[i].from_id,
                                                      message, FALSE)]
                     /\ pc' = [pc EXCEPT ![i] = "idle"]
                     /\ call' = [call EXCEPT ![i] = NoCall]
                     /\ UNCHANGED channels
                ELSE /\ channels' = [channels EXCEPT
                                        ![i + 1].buffer[message.from_id + 1] =
                                           <<message>>]
                     /\ UNCHANGED <<pc, call, returned>>
       /\ UNCHANGED <<rest, party, n_parties, network, now, sent, n_sent>>

NextParty ==
    \/ \E i \in Ids, message \in Payloads, to_party \in Ids :
          MaySend(MaxPartyMessages) /\ PartySend(i, message, to_party)
    \/ \E i \in Ids, from_id \in Ids : PartyReceiveCall(i, from_id)
    \/ \E i \in Ids : PartyPull(i)
    \/ \E i \in Ids : Free(WorkerReturn(i))

SpecParty == InitParty /\ [][NextParty]_vars

\* evaluate with parties that only measure durations, return or panic.
NextStats ==
    \/ SetupParties
    \/ StartRepetition({10})
    \/ \E k \in Ids : Spawn(k)
    \/ \E k \in Ids : Join(k)
    \/ Collected
    \/ Aggregate
    \/ Return
    \/ \E i \in Ids : Free(WorkerReturn(i))
    \/ \E i \in Ids : WorkerPanic(i)
    \/ \E i \in Ids : WriteDuration(i)

SpecStats == InitHarness /\ [][NextStats]_vars

\* ================================================================ claims
\* History read by the claims.

\* The link pipe worker q receives from.
PipeOf(q) == Ch(q).receiver

\* The payloads worker p pushed into q's link pipe, in p's order.
PayloadsSent(p, q) ==
    [x \in 1 .. Len(sent[p][PipeOf(q) + 1]) |->
        sent[p][PipeOf(q) + 1][x].contents]

\* The payloads q's calls receive(p) returned, in the order of the calls.
AskedFor(p, r) == r.asked = p

PayloadsReturned(q, p) ==
    LET rs == SelectSeq(returned[q], LAMBDA r : AskedFor(p, r))
    IN [x \in 1 .. Len(rs) |-> rs[x].contents]

IsPrefix(a, b) == Len(a) <= Len(b) /\ \A x \in 1 .. Len(a) : a[x] = b[x]

\* The identities of the messages in a sequence of messages or entries.
UidsOf(seq) == {seq[x].uid : x \in 1 .. Len(seq)}

\* C1: per-sender FIFO.  For distinct parties p and q, the payloads returned
\* by q's successive receive(p) calls are the payloads p sent to q, in p's
\* send order: the k-th receive(p) returns the k-th payload p sent to q.
C1_PerSenderFifo ==
    \A q \in Ids : \A p \in Ids \ {q} :
        IsPrefix(PayloadsReturned(q, p), PayloadsSent(p, q))

\* C2: demultiplexing is sender-exact.  Every payload returned by
\* receive(from_id) comes from an envelope whose from_id is the requested
\* one (the first component of a message's identity is its sender).
C2_SenderExact ==
    \A q \in Ids : \A x \in 1 .. Len(returned[q]) :
        returned[q][x].uid[1] = returned[q][x].asked

\* The messages worker q holds or has handed out: in its link pipe, in its
\* reorder buffers, matched by the receive call in progress, returned.
InPipe(q) == UidsOf(pipes[PipeOf(q) + 1])

InBuffers(q) ==
    UNION {UidsOf(Ch(q).buffer[b]) : b \in 1 .. Len(Ch(q).buffer)}

InCall(q) == IF pc[q] = "sleeping" THEN {call[q].uid} ELSE {}

Returned(q) == UidsOf(returned[q])

PushedTo(q) == UNION {UidsOf(sent[p][PipeOf(q) + 1]) : p \in Ids}

RECURSIVE SumLen(_, _)
SumLen(seqs, b) == IF b = 0 THEN 0 ELSE Len(seqs[b]) + SumLen(seqs, b - 1)

\* C3: no message is dropped by receive.  For every destination q the
\* messages pushed into q's link pipe are, each exactly once, in the pipe,
\* in one of q's reorder buffers, or returned by (or matched in) a receive
\* call of q.
C3_NoMessageDropped ==
    \A q \in Ids :
        /\ PushedTo(q) = InPipe(q) \cup InBuffers(q) \cup InCall(q) \cup Returned(q)
        /\ Cardinality(PushedTo(q)) =
              Len(pipes[PipeOf(q) + 1]) + SumLen(Ch(q).buffer, Len(Ch(q).buffer))
              + Cardinality(InCall(q)) + Len(returned[q])

\* C5: broadcast addresses exactly the peers.  A worker's link pipe and
\* reorder buffers never hold a message the worker itself sent.
C5_NoSelfDelivery ==
    \A i \in Ids : \A u \in InPipe(i) \cup InBuffers(i) : u[1] # i

\* C7: endpoint shape.  Every endpoint has n - 1 outbound senders and n - 1
\* reorder buffers, and no outbound slot feeds the endpoint's own link pipe.
C7_EndpointShape ==
    \A i \in Ids :
        /\ Len(Ch(i).senders) = n_parties - 1
        /\ Len(Ch(i).buffer) = n_parties - 1
        /\ \A x \in 1 .. Len(Ch(i).senders) :
              Ch(i).senders[x] # Ch(i).receiver

\* C9: instantiate(n_parties) returns n_parties endpoints, the one at
\* index i with id i, and for n_parties < 2 they have no outbound handles
\* and no reorder buffers.
C9_InstantiateCount ==
    /\ Len(channels) = n_parties
    /\ \A i \in Ids : Ch(i).id = i
    /\ n_parties < 2 =>
          \A i \in Ids : Len(Ch(i).senders) = 0 /\ Len(Ch(i).buffer) = 0

\* The entry of the history for the message of identity u.
LogEntry(u) == sent[u[1]][u[2] + 1][u[3]]

\* C4: routing of send.  The outbound handle at index j of every endpoint
\* feeds party j's link pipe, and a call send(message, to_id) of worker i
\* that returns appends the one envelope {from_id = i, contents = message,
\* arrival_time = send instant + latency} to the tail of party to_id's link
\* pipe and changes no other link pipe.
C4_SendRouting ==
    /\ [](\A i \in Ids : \A j \in Ids : Ch(i).senders[j + 1] = PipeOf(j))
    /\ [][\A i \in Ids : \A k \in Ids :
             (/\ Len(sent'[i][k + 1]) = Len(sent[i][k + 1]) + 1
              /\ sent'[i][k + 1][Len(sent'[i][k + 1])].op = "send")
             => LET e == sent'[i][k + 1][Len(sent'[i][k + 1])]
                    to == PipeOf(e.index)
                IN pipes' = [pipes EXCEPT ![to + 1] =
                                Append(@, [arrival_time |-> now + network.latency,
                                           from_id |-> i,
                                           contents |-> e.contents,
                                           uid |-> e.uid])]]_vars

\* A message sent at instant 1 over a link of latency 1 waits in the link
\* pipe of a peer of its sender.
C4_Witness ==
    \E k \in 1 .. Len(pipes) : \E x \in 1 .. Len(pipes[k]) :
        /\ pipes[k][x].arrival_time = 2
        /\ network.latency = 1
        /\ LogEntry(pipes[k][x].uid).op = "send"
        /\ LogEntry(pipes[k][x].uid).index = k - 1

RECURSIVE SumBytes(_, _)
SumBytes(log, x) ==
    IF x = 0 THEN 0 ELSE Len(log[x].contents) + SumBytes(log, x - 1)

C8_ReducedIdBijection ==
    n_parties >= 2 =>
        \A i \in Ids :
            LET s == Ch(i).id
                peers == Ids \ {s}
                slots == 0 .. (Len(Ch(i).buffer) - 1)
            IN /\ \A p \in peers : ReducedId(s, p) \in slots
               /\ \A p1 \in peers : \A p2 \in peers :
                     ReducedId(s, p1) = ReducedId(s, p2) => p1 = p2
               /\ \A t \in slots : \E p \in peers : ReducedId(s, p) = t
               /\ pc[i] = "pulling" => ReducedId(s, call[i].from_id) \in slots
               /\ \A t \in slots : \A u \in UidsOf(Ch(i).buffer[t + 1]) :
                     u[1] \in peers => ReducedId(s, u[1]) = t

\* Party 1 of 3 keeps a message of peer 2 in slot 1.
C8_Witness ==
    /\ n_parties = 3
    /\ \E u \in UidsOf(Ch(1).buffer[2]) : u[1] = 2

\* C10: the transfer window of a matched message.  When receive returns a
\* message, pulled from the link pipe or popped from a reorder buffer, the
\* transfer starts at the later of next_vacancy before the call and the
\* message's original arrival time (send instant + latency), next_vacancy
\* becomes that start plus seconds_per_byte times the payload length, and
\* the call does not return before the start.
C10_TransferWindow ==
    [][\A i \in Ids :
          Len(returned'[i]) = Len(returned[i]) + 1 =>
             LET e == LogEntry(call[i].uid)
                 arrival == e.at + network.latency
                 start == Max(Ch(i).next_vacancy, arrival)
             IN /\ channels'[i + 1].next_vacancy =
                      start + network.seconds_per_byte * Len(e.contents)
                /\ now >= start]_vars

\* A worker has returned two messages, the second out of a reorder buffer
\* and started at the vacancy left by the first, after its own arrival.
C10_Witness ==
    \E i \in Ids :
        /\ Len(returned[i]) = 2
        /\ returned[i][2].buffered
        /\ LogEntry(returned[i][2].uid).at + network.latency = 1
        /\ Len(returned[i][2].contents) = 2
        /\ Ch(i).next_vacancy = 4

\* The last message worker i's receive calls returned.
LastReturned(i) == returned[i][Len(returned[i])]

\* C11: link serialization.  For every destination endpoint and every two
\* messages matched by consecutive receive calls of it, the transfer windows
\* [start, start + seconds_per_byte * length) do not overlap: the second
\* window starts no earlier than the first one ends.
C11_LinkSerialization ==
    [][\A i \in Ids :
          (Len(returned'[i]) = Len(returned[i]) + 1 /\ Len(returned[i]) >= 1)
          => stream'[i].start_time >=
                stream[i].start_time
                + network.seconds_per_byte * Len(LastReturned(i).contents)]_vars

\* A worker has returned two messages; the second, of 1 byte, arrived at
\* instant 1 while the 2-byte transfer of the first, started at 1, held the
\* link until 3: its own transfer started at 3 and ends at 4.
C11_Witness ==
    \E i \in Ids :
        /\ Len(returned[i]) = 2
        /\ network.seconds_per_byte = 1
        /\ Len(returned[i][1].contents) = 2
        /\ Len(returned[i][2].contents) = 1
        /\ LogEntry(returned[i][2].uid).at + network.latency = 1
        /\ stream[i].start_time = 3
        /\ Ch(i).next_vacancy = 4

\* The records of the bytes handed out in the scenario of C12: latency 1,
\* one time unit per byte, a 1-byte message that is the first one the
\* receiver's endpoint matched (the link carried nothing before it).
SingleByteReleases ==
    {r \in UNION {{released[i][x] : x \in 1 .. Len(released[i])} : i \in Ids} :
        /\ network = FullMesh(1, 1)
        /\ Len(LogEntry(r.uid).contents) = 1
        /\ \E i \in Ids : Len(returned[i]) >= 1 /\ returned[i][1].uid = r.uid}

\* C12 as stated: single-byte round trip.  With latency 1 s and 1 byte per
\* second, the byte of a 1-byte message sent at t over an idle link is
\* handed to the consuming caller at an instant >= t + 1 and < t + 2.
C12_SingleByteRoundTrip ==
    \A r \in SingleByteReleases :
        /\ r.at >= LogEntry(r.uid).at + 1
        /\ r.at < LogEntry(r.uid).at + 2

\* C12, amended: in that scenario the byte is handed to the caller no
\* earlier than t + 2: the latency and then the transfer time of the byte.
C12_SingleByteAfterTransfer ==
    \A r \in SingleByteReleases : r.at >= LogEntry(r.uid).at + 2

\* The byte of a message sent at instant 1 was handed out at instant 3.
C12_Witness ==
    \E r \in SingleByteReleases : LogEntry(r.uid).at = 1 /\ r.at = 3

\* A description with nonzero latency and/or bounded throughput.
Overhead == network.latency > 0 \/ network.seconds_per_byte > 0

\* Every worker has returned: the protocol has run.
AllReturned == \A i \in Ids : pc[i] = "done"

Held(i) ==
    {pipes[PipeOf(i) + 1][x] : x \in 1 .. Len(pipes[PipeOf(i) + 1])}
    \cup UNION {{Ch(i).buffer[b][x] : x \in 1 .. Len(Ch(i).buffer[b])} :
                   b \in 1 .. Len(Ch(i).buffer)}

\* C14: the zero-overhead description adds no simulated delay.  With latency
\* 0 and seconds_per_byte 0 every message's arrival_time is its send
\* instant; a receive that has matched its message returns without waiting,
\* the transfer it planned started no later than the present and
\* next_vacancy is never in the future; and the next byte of every stream
\* is due no later than the present.
C14_ZeroOverheadNoDelay ==
    network = FullMesh(0, 0) =>
        \A i \in Ids :
            /\ \A m \in Held(i) : m.arrival_time = LogEntry(m.uid).at
            /\ pc[i] = "sleeping" =>
                  /\ call[i].arrival_time = LogEntry(call[i].uid).at
                  /\ now >= Ch(i).next_vacancy
                  /\ now >= call[i].arrival_time
            /\ Ch(i).next_vacancy <= now
            /\ stream[i].start_time <= now
            /\ stream[i].bytes # <<>> => stream[i].wake_time <= now

\* Without overhead a 2-byte message sent at instant 1 was received and
\* both of its bytes were handed over at instant 1.
C14_Witness ==
    /\ network = FullMesh(0, 0)
    /\ \E i \in Ids :
          /\ Len(released[i]) = 2
          /\ \A x \in 1 .. 2 :
                /\ released[i][x].at = 1
                /\ LogEntry(released[i][x].uid).at = 1
                /\ released[i][x].index = x

\* Worker i holds the stream of the last message it received and has pulled
\* no byte from it.
Unconsumed(i) ==
    /\ Len(returned[i]) >= 1
    /\ stream[i].yielded = 0
    /\ stream[i].bytes = LastReturned(i).contents

\* C15 as stated: unconsumed streams are not charged.  The return of a
\* later receive on the same endpoint is not pushed back by the transfer
\* duration of an earlier message whose stream was left unconsumed: once
\* the later message has arrived and the earlier transfer has started, the
\* receive that matched it is not kept waiting.
C15_UnconsumedNotCharged ==
    \A i \in Ids :
        (/\ pc[i] = "sleeping"
         /\ Unconsumed(i)
         /\ now >= call[i].arrival_time
         /\ now >= stream[i].start_time)
        => now >= Ch(i).next_vacancy

\* C15, amended: an unconsumed stream costs its caller no per-byte delay,
\* but its message still occupies the link.  A receive that follows a
\* message whose stream was left unconsumed does not return before that
\* message's transfer window has ended: the start of the earlier transfer
\* plus seconds_per_byte times its length.
C15_UnconsumedOccupiesLink ==
    [][\A i \in Ids :
          (Len(returned'[i]) = Len(returned[i]) + 1 /\ Unconsumed(i))
          => now >= stream[i].start_time
                    + network.seconds_per_byte * Len(stream[i].bytes)]_vars

\* Over a link of latency 0 and one time unit per byte a worker received
\* two messages sent at instant 0 and pulled no byte of either: the 2-byte
\* transfer of the first held back the second, which started at instant 2.
C15_Witness ==
    \E i \in Ids :
        /\ network = FullMesh(0, 1)
        /\ released[i] = <<>>
        /\ Len(returned[i]) = 2
        /\ Len(returned[i][1].contents) = 2
        /\ LogEntry(returned[i][2].uid).at = 0
        /\ stream[i].start_time = 2
        /\ stream[i].yielded = 0

\* A worker thread that has been spawned and has not ended.
Running(i) == pc[i] \in {"idle", "pulling", "sleeping"}

\* C16: the workers of a repetition run concurrently.  All workers of the
\* repetition are spawned before the harness waits for (joins) any of
\* them: whenever the harness is blocked in a join, no worker of the
\* repetition is still to be spawned.
C16_AllSpawnedBeforeJoin ==
    harness.waiting => \A i \in Ids : i < Workers => pc[i] # "unspawned"

\* The order of the phases of a repetition.
PhaseRank(phase) ==
    CASE phase = "idle" -> 0
      [] phase = "instantiated" -> 1
      [] phase = "running" -> 2
      [] phase = "joined" -> 3
      [] phase = "aggregated" -> 4
      [] OTHER -> 5

\* C17: the join barrier between repetitions.  Within a repetition the
\* harness moves forward through Idle, Instantiated, Running, Joined and
\* Aggregated (Aggregated being the Idle of the next repetition); it
\* instantiates endpoints only when no worker is running and
\* every earlier repetition is aggregated, spawns workers only for the
\* repetition it has instantiated, and hands timing records to the
\* collector only when every worker of the repetition has completed; so no
\* worker is running outside the Running phase of its own repetition.
C17_JoinBarrier ==
    /\ [](\A i \in DOMAIN pc :
            Running(i) => harness.phase = "running" /\ harness.rep < harness.repetitions)
    /\ [](Len(stats) = n_parties * harness.rep)
    /\ [][/\ (harness'.rep = harness.rep
              /\ harness.phase \notin {"entry", "aggregated"})
              => PhaseRank(harness'.phase) >= PhaseRank(harness.phase)
          /\ (harness.phase = "aggregated" /\ harness'.phase # "aggregated")
              => harness'.phase \in {"instantiated", "failed", "finished"}
          /\ harness'.rep # harness.rep
              => /\ harness.phase = "joined" /\ harness'.phase = "aggregated"
                 /\ harness'.rep = harness.rep + 1
                 /\ \A i \in Ids : i < Workers => pc[i] = "done"
          /\ stats' # stats => harness'.rep # harness.rep
          /\ (harness'.phase = "instantiated" /\ harness.phase # "instantiated")
              => /\ harness.phase \in {"idle", "aggregated"}
                 /\ \A i \in DOMAIN pc : ~Running(i)
          /\ \A i \in DOMAIN pc :
                (~Running(i) /\ pc'[i] = "idle")
                => /\ harness.phase \in {"instantiated", "running"}
                   /\ harness'.rep = harness.rep]_vars

\* The second repetition of two parties is running: the first one is
\* aggregated (two records), its workers are gone, and a worker of the
\* second repetition has received a message.
C17_Witness ==
    /\ n_parties = 2
    /\ harness.rep = 1
    /\ harness.phase = "running"
    /\ Len(stats) = 2
    /\ \E i \in Ids : Running(i) /\ Len(returned[i]) = 1

\* The party count and the numbers of parties set up and of inputs
\* generated differ.
Mismatch == harness.n_setup # n_parties \/ harness.n_inputs # n_parties

\* C18: a configuration error is fatal before any work.  When the number of
\* inputs, or of parties set up, differs from the party count, evaluate
\* has failed (or is still at its entry checks) and no worker has been
\* spawned and no endpoint built: it never runs on with fewer workers.
C18_MismatchFatalAtEntry ==
    Mismatch =>
        /\ harness.phase \in {"entry", "failed"}
        /\ \A i \in DOMAIN pc : pc[i] = "unspawned"
        /\ channels = <<>>

\* C19: a failing worker is fatal to the repetition.  Once a worker has
\* panicked the harness is joining that worker or has failed; it does not
\* get past the join, no timing record of the repetition reaches the
\* collector, and a failed evaluate takes no further step: no retry and no
\* later repetition.
C19_WorkerPanicFatal ==
    /\ [](\A i \in DOMAIN pc :
            pc[i] = "panicked" =>
                /\ harness.phase \in {"running", "failed"}
                /\ harness.next = i
                /\ harness.waiting
                /\ Len(stats) = n_parties * harness.rep)
    /\ [][harness.phase = "failed" => FALSE]_vars

\* The first of two repetitions was aggregated, a worker of the second one
\* panicked, and evaluate failed with the records of the first only.
C19_Witness ==
    /\ harness.phase = "failed"
    /\ harness.repetitions = 2
    /\ harness.rep = 1
    /\ n_parties >= 2
    /\ Len(stats) = n_parties
    /\ \E i \in Ids : pc[i] = "panicked"

\* The endpoint of party q has been dropped: its worker returned or
\* panicked.
Dropped(q) == pc[q] \in {"done", "panicked"}

\* C20: a send into a closed pipe is fatal.  No step puts a message into
\* the link pipe of a dropped endpoint or raises a sent-byte counter for
\* it; a counter is raised only by a call that returns, together with the
\* push of its message into the open pipe of that destination; and a
\* worker that aborts in send or broadcast leaves all its counters as they
\* were.
C20_ClosedPipeFatal ==
    [][\A i \in Ids :
          /\ \A q \in Ids :
                Dropped(q) =>
                    /\ pipes'[PipeOf(q) + 1] = pipes[PipeOf(q) + 1]
                    /\ sent'[i][PipeOf(q) + 1] = sent[i][PipeOf(q) + 1]
                    /\ channels'[i + 1].sent_bytes[q + 1] = Ch(i).sent_bytes[q + 1]
          /\ \A q \in Ids :
                channels'[i + 1].sent_bytes[q + 1] # Ch(i).sent_bytes[q + 1] =>
                    /\ pc'[i] = "idle"
                    /\ Len(pipes'[PipeOf(q) + 1]) = Len(pipes[PipeOf(q) + 1]) + 1
          /\ (pc[i] = "idle" /\ pc'[i] = "panicked") =>
                /\ channels' = channels
                /\ \E q \in Ids : Dropped(q)]_vars

\* A worker aborted in a broadcast: it pushed the message into an open
\* pipe, met the pipe of a worker that had returned, and counted nothing.
C20_Witness ==
    \E i \in Ids :
        /\ pc[i] = "panicked"
        /\ \A q \in Ids : Ch(i).sent_bytes[q + 1] = 0
        /\ \E k \in Ids : \E x \in 1 .. Len(sent[i][k + 1]) :
              sent[i][k + 1][x].op = "broadcast"
        /\ \E q \in Ids : pc[q] = "done" /\ sent[i][PipeOf(q) + 1] = <<>>

\* C21: a receive on a broken link is fatal.  A worker blocked in receive
\* whose link pipe is empty while every peer has returned or panicked can
\* get no message any more; its recv reports the broken link (no Sender of
\* the pipe is left), so that the worker aborts instead of staying blocked.
C21_BrokenLinkFatal ==
    \A q \in Ids :
        (/\ pc[q] = "pulling"
         /\ pipes[PipeOf(q) + 1] = <<>>
         /\ \A p \in Ids \ {q} : Dropped(p))
        => SendersHeld(PipeOf(q)) = {}

\* What holds of the example in every state of a run without a count
\* mismatch: nothing aborts; party j's k-th receive asked for party k - 1
\* and returned its payload [k - 1], and there are at most j of them; when
\* all workers are joined party j has received exactly j messages and the
\* outputs are id + input in party-id order; no sleep outlasts the clock
\* of the model.
ExampleCorrect ==
    ~Mismatch =>
        /\ harness.phase # "failed"
        /\ \A j \in Ids :
              /\ pc[j] # "panicked"
              /\ Len(returned[j]) <= j
              /\ \A x \in 1 .. Len(returned[j]) :
                    /\ returned[j][x].asked = x - 1
                    /\ returned[j][x].contents = <<x - 1>>
              /\ Asleep(j) => now < ExampleMaxTime
        /\ harness.phase = "joined" =>
              /\ \A j \in Ids : Len(returned[j]) = j /\ pc[j] = "done"
              /\ harness.outputs =
                    [k \in 1 .. n_parties |-> (k - 1) + harness.inputs[k]]
              /\ (\A k \in 1 .. n_parties : harness.inputs[k] = 10) =>
                    harness.outputs = <<10, 11, 12, 13, 14>>

C23_SelfReceiveRejected ==
    /\ [](harness.debug_assertions =>
            \A i \in Ids :
               /\ call[i].from_id = i => pc[i] = "panicked"
               /\ \A x \in 1 .. Len(returned[i]) : returned[i][x].asked # i)
    /\ [][harness.debug_assertions =>
            \A i \in Ids :
               (call'[i].from_id = i /\ call[i].from_id # i) =>
                  /\ pc[i] = "idle" /\ pc'[i] = "panicked"
                  /\ pipes' = pipes
                  /\ channels' = channels
                  /\ returned' = returned]_vars

\* A debug build: a worker called receive with its own id while a message
\* (its own broadcast) waited in its link pipe, and aborted; the message is
\* still there.
C23_Witness ==
    /\ harness.debug_assertions
    /\ \E i \in Ids :
          /\ pc[i] = "panicked"
          /\ call[i].from_id = i
          /\ pipes[PipeOf(i) + 1] # <<>>
          /\ Head(pipes[PipeOf(i) + 1]).from_id = i

\* C24: a receive is resolved by the desired message wherever it sits.  A
\* worker pulling for p while a message of p is in its link pipe goes on
\* pulling until it has that message, whatever is queued ahead of it: it
\* does not abort; and every message set aside is kept in the reorder
\* buffer of its own sender, a peer, in the order of the pulls.
C24_ResolvedWhereverItSits ==
    /\ [](\A q \in Ids : \A b \in 1 .. Len(Ch(q).buffer) :
             \A x \in 1 .. Len(Ch(q).buffer[b]) :
                LET u == Ch(q).buffer[b][x].uid
                IN /\ u[1] \in Ids \ {q}
                   /\ ReducedId(q, u[1]) = b - 1
                   /\ \A y \in 1 .. x - 1 : Ch(q).buffer[b][y].uid[3] < u[3])
    /\ [][\A q \in Ids :
             (/\ pc[q] = "pulling"
              /\ \E x \in 1 .. Len(pipes[PipeOf(q) + 1]) :
                    pipes[PipeOf(q) + 1][x].from_id = call[q].from_id)
             => pc'[q] \in {"pulling", "sleeping"}]_vars

\* Worker k waits for a sender that will not send: it pulls from an empty
\* link pipe while no other worker of the repetition is running.
Blocked(k) ==
    /\ pc[k] = "pulling"
    /\ pipes[PipeOf(k) + 1] = <<>>
    /\ \A j \in Ids \ {k} : ~Running(j)

\* C25: no timeout, no deadlock detection.  A receive leaves its wait only
\* with a message of the sender asked for; a worker that waits for a
\* message nobody will send stays blocked for ever, and the harness, which
\* waits in the join of that worker, stays where it is: it neither reaches
\* Joined nor fails.
C25_NoTimeout ==
    /\ [][\A q \in Ids :
             (pc[q] = "pulling" /\ pc'[q] # "pulling") =>
                \/ /\ pc'[q] = "sleeping"
                   /\ call'[q].uid[1] = call[q].from_id
                   /\ call'[q].uid \in UidsOf(pipes[PipeOf(q) + 1])
                \/ /\ pc'[q] = "panicked"
                   /\ pipes[PipeOf(q) + 1] # <<>>]_vars
    /\ [][\A k \in Ids :
             Blocked(k) =>
                /\ Blocked(k)'
                /\ harness' = harness
                /\ harness.phase = "running" /\ harness.waiting]_vars

\* The harness waits in the join of worker 0, which waits in receive(&1)
\* while worker 1, which would send, has not been spawned.
C25_Witness ==
    /\ harness.phase = "running"
    /\ harness.waiting /\ harness.next = 0
    /\ Blocked(0)
    /\ call[0].from_id = 1
    /\ pc[1] = "unspawned"

\* C26: byte pacing of the returned stream.  The stream of a receive with
\* transfer start S over L bytes hands out the payload bytes in order, the
\* k-th not before S + k * seconds_per_byte, and then ends, after exactly L
\* bytes and not before S + L * seconds_per_byte, the next_vacancy its
\* receive has set; next() on a stream without bytes left does not wait.
C26_BytePacing ==
    /\ [](\A i \in Ids :
             stream[i].uid # <<>> =>
                /\ stream[i].uid = LastReturned(i).uid
                /\ Ch(i).next_vacancy =
                      stream[i].start_time
                      + stream[i].seconds_per_byte * Len(LastReturned(i).contents)
                /\ stream[i].yielded + Len(stream[i].bytes)
                      = Len(LastReturned(i).contents)
                /\ (pc[i] = "idle" /\ stream[i].bytes = <<>>) =>
                      ENABLED StreamNext(i))
    /\ [][\A i \in Ids :
             /\ released'[i] # released[i] =>
                   LET r == released'[i][Len(released'[i])]
                   IN /\ released'[i] = Append(released[i], r)
                      /\ r.uid = stream[i].uid
                      /\ r.index = stream[i].yielded + 1
                      /\ r.byte = LastReturned(i).contents[r.index]
                      /\ r.at >= stream[i].start_time
                                  + r.index * stream[i].seconds_per_byte
             /\ (stream'[i].exhausted /\ ~stream[i].exhausted) =>
                   /\ stream[i].uid = stream'[i].uid =>
                         /\ stream[i].yielded = Len(LastReturned(i).contents)
                         /\ now >= Ch(i).next_vacancy]_vars

\* At one second per byte a 2-byte message was streamed out: its second
\* byte at start + 2, and next() then returned None although the wake time
\* of the stream lay ahead.
C26_Witness ==
    \E i \in Ids :
        /\ stream[i].exhausted
        /\ stream[i].seconds_per_byte = 1
        /\ stream[i].yielded = 2
        /\ released[i][Len(released[i])].at = stream[i].start_time + 2
        /\ now < stream[i].wake_time

\* C27: timing records are forwarded once per party per repetition.  The
\* collector holds n records for each repetition that is over, those of a
\* repetition together, the repetitions in order and the parties of a
\* repetition in id order, so r * n records when evaluate returns after r
\* repetitions; and a worker starts with an empty recorder.
C27_RecordsPerRepetition ==
    /\ [](/\ Len(stats) = harness.rep * n_parties
          /\ \A x \in 1 .. Len(stats) :
                /\ stats[x].rep = (x - 1) \div n_parties
                /\ stats[x].party = (x - 1) % n_parties
          /\ harness.phase = "finished" =>
                Len(stats) = harness.repetitions * n_parties
          /\ \A i \in Ids : pc[i] = "unspawned" => party[i].stats = <<>>)
    /\ [][\A i \in Ids :
             (pc[i] = "unspawned" /\ pc'[i] = "idle") =>
                party'[i].stats = <<>>]_vars

\* evaluate has returned after 2 repetitions with 3 parties: 6 records, of
\* which one of the second repetition holds a measured duration and one of
\* the first holds none.
C27_Witness ==
    /\ harness.phase = "finished"
    /\ harness.repetitions = 2
    /\ n_parties = 3
    /\ Len(stats) = 6
    /\ stats[1].measured_durations = <<>>
    /\ stats[5].measured_durations # <<>>

\* C28: next_vacancy never moves backwards.  No step lowers the
\* next_vacancy of an endpoint, whatever message a receive matched (one
\* out of a reorder buffer that arrived before the current next_vacancy
\* included); and a step that pushes a message, of a send or a broadcast,
\* changes no next_vacancy and no reorder buffer.
C28_VacancyMonotonic ==
    [][\A i \in Ids :
          /\ channels'[i + 1].next_vacancy >= Ch(i).next_vacancy
          /\ sent' # sent =>
                /\ channels'[i + 1].next_vacancy = Ch(i).next_vacancy
                /\ channels'[i + 1].buffer = Ch(i).buffer]_vars

\* After a broadcast and a send, a worker has returned two messages, the
\* second out of a reorder buffer with an arrival time before the
\* next_vacancy of that moment, which went up from 2 to 4.
C28_Witness ==
    \E i \in Ids :
        /\ Len(returned[i]) = 2
        /\ returned[i][2].buffered
        /\ LogEntry(returned[i][2].uid).at + network.latency = 0
        /\ stream[i].start_time = 2
        /\ Ch(i).next_vacancy = 4
        /\ \E j \in Ids, k \in Ids : \E x \in 1 .. Len(sent[j][k + 1]) :
              sent[j][k + 1][x].op = "broadcast"

\* C29: the stand-alone Party::receive drops no message and keeps the
\* order of a sender.  Every message pushed into the link pipe of q is
\* still in the pipe, kept in q's buffer, or was returned by a receive of
\* q; and what q's receive(s) calls returned are the payloads s sent to q,
\* in the order s sent them.
C29_StandaloneKeepsAll ==
    \A q \in Ids :
        /\ \A u \in PushedTo(q) :
              u[1] # q => u \in InPipe(q) \cup InBuffers(q) \cup Returned(q)
        /\ \A s \in Ids \ {q} :
              IsPrefix(PayloadsReturned(q, s), PayloadsSent(s, q))

====
